---- MODULE Spec2Model ----
(***************************************************************************)
(* Model of src/main.py: the document ingestion orchestrator.              *)
(*                                                                         *)
(* One run of one boundary operation is modelled: process (pipeline A),    *)
(* process_with_monitoring (pipeline B), or a direct call of               *)
(* monitor_document_progress.  Every external call (database, object       *)
(* store, HTTP request to the ingestion service) is a step whose reply is  *)
(* chosen by the environment.  Time is an integer number of seconds; an    *)
(* HTTP progress query takes 0..MaxQueryTime seconds and a sleep of        *)
(* poll_interval seconds ends 0..MaxOversleep seconds late.                *)
(*                                                                         *)
(* The endpoint calls the monitor with its defaults (max_wait_time = 300,  *)
(* poll_interval = 5).  The model lets the two parameters range over       *)
(* 0..MaxWaitTime and 1..MaxPollInterval, so that the deadline is hit      *)
(* before the first poll, after one poll and after several.                *)
(***************************************************************************)
EXTENDS Integers, Sequences, FiniteSets, TLC

\* ------------------------------------------------------------------ bounds
MaxWaitTime == 12
MaxPollInterval == 5
MaxQueryTime == 2
MaxOversleep == 1

\* ------------------------------------------------------------ value domains
Entries == {"process", "process_with_monitoring"}
Sources == {"postgres", "minio", "s3", ""}
DocumentIds == {"C-100"}
RemoteIds == {"R1", "R2"}
ChatIds == {"A1", "A2"}
SessionIds == {"S1", "S2"}

\* HTTP status codes raised by the helpers
NOT_FOUND == 404
INVALID_ARGUMENT == 400
UPSTREAM_ERROR == 502
INTERNAL == 500

NoValue == [kind |-> "none"]
NoExc == [type |-> "none", status |-> 0, detail |-> ""]
Exc(type, status, detail) == [type |-> type, status |-> status, detail |-> detail]
HTTPException(status, detail) == Exc("HTTPException", status, detail)

VARIABLES
    entry,              \* the boundary operation of this run
    source,             \* input.source
    document_id,        \* input.document_id
    lookup,             \* what the backend named by source holds for document_id
    pc,                 \* position in the handler
    calls,              \* the external calls made so far, except progress queries
    open_conns,         \* database connections opened and not closed
    doc_name,           \* display name unpacked from fetch
    upload_result,      \* the decoded upload response
    ragflow_doc_id,     \* id extracted from the upload response
    max_wait_time,
    poll_interval,
    now,                \* time.time()
    start_time,
    polls,              \* progress queries issued inside the loop
    final_polls,        \* progress queries issued after the loop
    any_failed,         \* whether a progress query inside the loop has raised
    progress_ids,       \* the ids the progress queries were issued for
    doc_info,           \* what the latest progress query returned (None if it raised)
    poll_exc,           \* the exception caught around the latest progress query
    progress_result,    \* what the monitor returned
    chat_id,
    session_id,
    chat_assistant_result,
    session_result,
    summary_result,
    raised,             \* the exception that ended the run (none: NoExc)
    response,           \* what the boundary operation returned or raised
    runs,               \* concurrent requests: the locals and the result of each invocation
    running             \* the invocation that holds the event loop (0: none)

vars == <<entry, source, document_id, lookup, pc, calls, open_conns, doc_name,
          upload_result, ragflow_doc_id, max_wait_time, poll_interval, now, start_time, polls,
          final_polls, any_failed, progress_ids, doc_info, poll_exc,
          progress_result, chat_id, session_id, chat_assistant_result, session_result, summary_result, raised, response, runs, running>>

concVars == <<runs, running>>
pipeVars == <<entry, source, document_id, lookup, open_conns, doc_name, concVars>>
idVars == <<upload_result, ragflow_doc_id>>
outVars == <<raised, response>>
monVars == <<max_wait_time, poll_interval, now, start_time, polls, final_polls,
             any_failed, progress_ids, doc_info, poll_exc, progress_result>>
chatVars == <<chat_id, session_id, chat_assistant_result, session_result, summary_result>>

Call(op, a, b) == [op |-> op, a |-> a, b |-> b]

\* Two requests to /process_with_monitoring/ served by the one event loop.  A
\* run keeps the locals of its coroutine frames (ragflow_doc_id, start_time,
\* chat_id, session_id), what it is doing (pc), the requests it has issued
\* (used), the time its pending sleep is due to end (due), the most time that
\* would have passed since start_time had no other request held the event loop,
\* every sleep ending MaxOversleep late (solo_elapsed), and the result it
\* returned: status "none" until it returns,
\* "error" for the HTTP 500, and else the monitor's status with done_snapshot
\* telling whether the final snapshot is a done one and summary whether a
\* summary was obtained.  alone_in_loop tells, of a run that timed out, whether
\* its loop condition would still have held had it run alone.  The times of a
\* run that has returned are no longer read and are set back to 0.
Runs == {1, 2}
NewRun ==
    [pc |-> "new", ragflow_doc_id |-> "", start_time |-> 0, due |-> 0,
     solo_elapsed |-> 0, used |-> {}, chat_id |-> "", session_id |-> "",
     status |-> "none", done_snapshot |-> FALSE, alone_in_loop |-> FALSE,
     document_id |-> "", summary |-> FALSE]

\* ------------------------------------------------------------ fetch_document
\* What the relational store does for an identifier: the connection, the cursor
\* or the query fails, no row matches, or a row does.  What the object store
\* does: the object is absent, or it is a text of two characters or of another
\* length.
PgOutcomes == {"connect_fail", "cursor_fail", "execute_fail", "no_row", "row"}
ObjOutcomes == {"missing", "text2", "text"}

\* fetch_document(document_id, source) against a backend that answers found: the
\* exception raised or the value returned, the backend calls made, and the
\* connections left open.
PgLog(id) == <<Call("pg_connect", id, ""), Call("pg_query", id, "")>>

\* The row check left out: unpacking the None that fetchone() returned raises.
NoRow_Unchecked(id) ==
    [exc |-> Exc("TypeError", 0, "cannot unpack NoneType"), value |-> NoValue,
     log |-> PgLog(id), leaked |-> 0]

\* if not result: raise HTTPException(status_code=404, ...)
NoRow(id) ==
    [exc |-> HTTPException(NOT_FOUND, "Document not found in PostgreSQL"),
     value |-> NoValue, log |-> PgLog(id), leaked |-> 0]

FetchPostgres(id, found) ==
    CASE found = "connect_fail" ->
            \* connect raises; the finally block's cursor.close() then raises
            \* UnboundLocalError, which replaces it
            [exc |-> Exc("UnboundLocalError", 0, "cursor"), value |-> NoValue,
             log |-> <<Call("pg_connect", id, "")>>, leaked |-> 0]
      [] found = "cursor_fail" ->
            \* conn.cursor() raises; cursor.close() raises UnboundLocalError
            \* before conn.close() is reached
            [exc |-> Exc("UnboundLocalError", 0, "cursor"), value |-> NoValue,
             log |-> <<Call("pg_connect", id, "")>>, leaked |-> 1]
      [] found = "execute_fail" ->
            [exc |-> Exc("DatabaseError", 0, "execute"), value |-> NoValue,
             log |-> PgLog(id), leaked |-> 0]
      [] found = "no_row" -> NoRow(id)
      [] OTHER ->
            [exc |-> NoExc, value |-> [kind |-> "pair", name |-> "c100.txt"],
             log |-> PgLog(id), leaked |-> 0]

FetchMinio(id, found) ==
    IF found = "missing"
    THEN [exc |-> HTTPException(NOT_FOUND, "Could not fetch document from MinIO"),
          value |-> NoValue, log |-> <<Call("minio_get", id, "")>>, leaked |-> 0]
    ELSE [exc |-> NoExc, value |-> [kind |-> "str", name |-> found],
          log |-> <<Call("minio_get", id, "")>>, leaked |-> 0]

InvalidSource ==
    [exc |-> HTTPException(INVALID_ARGUMENT, "Invalid source specified"),
     value |-> NoValue, log |-> <<>>, leaked |-> 0]

\* fetch_document with a plain else for elif source == "minio".
fetch_document_ElseMinio(id, src, found) ==
    IF src = "postgres" THEN FetchPostgres(id, found) ELSE FetchMinio(id, found)

fetch_document(id, src, found) ==
    IF src = "postgres" THEN FetchPostgres(id, found)
    ELSE IF src = "minio" THEN FetchMinio(id, found)
    ELSE InvalidSource

\* doc_content, doc_name = fetch_document(...): a pair unpacks; a string unpacks
\* only when it has exactly two characters, into its two characters.
Unpack(value) ==
    IF value.kind = "pair" THEN [exc |-> NoExc, name |-> value.name]
    ELSE IF value.name = "text2" THEN [exc |-> NoExc, name |-> "char"]
    ELSE [exc |-> Exc("ValueError", 0, "unpack"), name |-> ""]

\* ------------------------------------------------------- boundary responses
NoResponse == [kind |-> "none", http_status |-> 0, detail |-> NoExc, body |-> NoValue]

\* An exception leaving process(): the framework answers an HTTPException with
\* its own status and detail, anything else with 500.
RaiseFromProcess(e) ==
    IF e.type = "HTTPException"
    THEN [kind |-> "error", http_status |-> e.status, detail |-> e, body |-> NoValue]
    ELSE [kind |-> "error", http_status |-> INTERNAL,
          detail |-> Exc("none", INTERNAL, "Internal Server Error"), body |-> NoValue]

\* except Exception as e: raise HTTPException(status_code=500, detail=str(e))
RaiseFromMonitoring(e) ==
    [kind |-> "error", http_status |-> INTERNAL,
     detail |-> Exc("str", e.status, e.detail), body |-> NoValue]

\* An exception leaving monitor_document_progress when it is called directly.
RaiseFromMonitor(e) ==
    [kind |-> "raised", http_status |-> 0, detail |-> e, body |-> NoValue]

Raise(e) ==
    CASE entry = "process" -> RaiseFromProcess(e)
      [] entry = "monitor" -> RaiseFromMonitor(e)
      [] OTHER -> RaiseFromMonitoring(e)

\* --------------------------------------------------------- ingestion client
UploadReplies ==
    {[kind |-> k, id |-> ""] :
        k \in {"transport", "http_error", "nonjson", "json_nodata", "json_empty", "json_noid"}}
    \cup {[kind |-> "json_id", id |-> r] : r \in RemoteIds}

\* upload_to_ragflow: requests.post may raise, a non-ok status raises 502,
\* resp.json() may raise; otherwise the decoded response is returned.
upload_to_ragflow(reply) ==
    CASE reply.kind = "transport" -> [exc |-> Exc("ConnectionError", 0, "upload"), value |-> NoValue]
      [] reply.kind = "http_error" -> [exc |-> HTTPException(UPSTREAM_ERROR, "Upload failed"), value |-> NoValue]
      [] reply.kind = "nonjson" -> [exc |-> Exc("JSONDecodeError", 0, "upload"), value |-> NoValue]
      [] OTHER -> [exc |-> NoExc, value |-> reply]

\* The display name taken for the id: upload_result["data"][0]["name"].
ExtractDocId_Name(result) ==
    CASE result.kind = "json_id" -> [exc |-> NoExc, id |-> "c100.txt"]
      [] result.kind = "json_empty" -> [exc |-> Exc("IndexError", 0, "list index out of range"), id |-> ""]
      [] OTHER -> [exc |-> Exc("KeyError", 0, "data/id"), id |-> ""]

\* upload_result["data"][0]["id"]
ExtractDocId(result) ==
    CASE result.kind = "json_id" -> [exc |-> NoExc, id |-> result.id]
      [] result.kind = "json_empty" -> [exc |-> Exc("IndexError", 0, "list index out of range"), id |-> ""]
      [] OTHER -> [exc |-> Exc("KeyError", 0, "data/id"), id |-> ""]

TriggerReplies == {"transport", "http_error", "ok"}

trigger_chunk_and_ingest(reply) ==
    CASE reply = "transport" -> Exc("ConnectionError", 0, "chunks")
      [] reply = "http_error" -> HTTPException(UPSTREAM_ERROR, "Chunking failed")
      [] OTHER -> NoExc

\* Replies to the progress query.  progress is in hundredths (100 is 1.0);
\* numeric = FALSE is a progress field that is no number (null, a string).
DONE_FRACTION == 100
Statuses == {"0", "1", "-1", "2", "missing"}
Doc(status, progress, numeric) ==
    [kind |-> "doc", status |-> status, progress |-> progress, numeric |-> numeric]
NoDoc == [kind |-> "None", status |-> "", progress |-> 0, numeric |-> FALSE]
Docs ==
    {Doc(s, p, TRUE) : s \in Statuses, p \in {0, DONE_FRACTION}}
    \cup {Doc(s, 0, FALSE) : s \in Statuses}
ProgressReplies ==
    {[kind |-> k, doc |-> NoDoc] : k \in {"transport", "http_error", "api_error", "nodoc"}}
    \cup {[kind |-> "json", doc |-> d] : d \in Docs}

\* check_document_progress: a non-ok status and a non-zero code raise 502; a
\* transport error and a body without data.doc (or that is no JSON) raise too.
check_document_progress(reply) ==
    CASE reply.kind = "transport" -> [exc |-> Exc("ConnectionError", 0, "progress"), value |-> NoDoc]
      [] reply.kind = "http_error" -> [exc |-> HTTPException(UPSTREAM_ERROR, "Progress check failed"), value |-> NoDoc]
      [] reply.kind = "api_error" -> [exc |-> HTTPException(UPSTREAM_ERROR, "API error"), value |-> NoDoc]
      [] reply.kind = "nodoc" -> [exc |-> Exc("KeyError", 0, "data/doc"), value |-> NoDoc]
      [] OTHER -> [exc |-> NoExc, value |-> reply.doc]

\* doc_info.get("status", "unknown")
GetStatus(d) == IF d.status = "missing" THEN "unknown" ELSE d.status

\* Chat-assistant, session and completion replies.  code -1 stands for a body
\* without a code field; data is "absent", "null", "noid" or the id in data.id.
ChatReplies(ids) ==
    {[kind |-> k, code |-> -1, data |-> "absent"] : k \in {"transport", "nonjson"}}
    \cup {[kind |-> "json", code |-> c, data |-> d] :
            c \in {0, 102}, d \in {"absent", "null", "noid"} \cup ids}

\* requests.post may raise; a body that is no JSON yields {"error": text}.
PostJson(reply, what) ==
    CASE reply.kind = "transport" -> [exc |-> Exc("ConnectionError", 0, what), value |-> NoValue]
      [] reply.kind = "nonjson" ->
            [exc |-> NoExc, value |-> [kind |-> "dict", code |-> -1, data |-> "absent", error |-> TRUE]]
      [] OTHER ->
            [exc |-> NoExc, value |-> [kind |-> "dict", code |-> reply.code, data |-> reply.data, error |-> FALSE]]

create_chat_assistant(reply) == PostJson(reply, "chats")
create_chat_session(reply) == PostJson(reply, "sessions")
get_document_summary(reply) == PostJson(reply, "completions")

\* result["data"]["id"]
ExtractId(result) ==
    CASE result.data = "absent" -> [exc |-> Exc("KeyError", 0, "data"), id |-> ""]
      [] result.data = "null" -> [exc |-> Exc("TypeError", 0, "NoneType"), id |-> ""]
      [] result.data = "noid" -> [exc |-> Exc("KeyError", 0, "id"), id |-> ""]
      [] OTHER -> [exc |-> NoExc, id |-> result.data]

\* "data" in result and "id" in result["data"]
HasDataId(result) ==
    CASE result.data = "absent" -> [exc |-> NoExc, has |-> FALSE]
      [] result.data = "null" -> [exc |-> Exc("TypeError", 0, "NoneType"), has |-> FALSE]
      [] result.data = "noid" -> [exc |-> NoExc, has |-> FALSE]
      [] OTHER -> [exc |-> NoExc, has |-> TRUE]

\* ------------------------------------------------------------------- Init
NoResult == [status |-> "none", document_info |-> NoDoc, total_wait_time |-> 0]

InitCommon ==
    /\ document_id \in DocumentIds
    /\ calls = <<>>
    /\ open_conns = 0
    /\ doc_name = ""
    /\ now = 0
    /\ start_time = 0
    /\ polls = 0
    /\ final_polls = 0
    /\ any_failed = FALSE
    /\ progress_ids = {}
    /\ doc_info = NoDoc
    /\ poll_exc = NoExc
    /\ progress_result = NoResult
    /\ chat_id = ""
    /\ session_id = ""
    /\ chat_assistant_result = NoValue
    /\ session_result = NoValue
    /\ summary_result = NoValue
    /\ upload_result = NoValue
    /\ raised = NoExc
    /\ response = NoResponse
    /\ runs = [r \in Runs |-> NewRun]
    /\ running = 0

\* A request arrives at /process/ or /process_with_monitoring/.
Init ==
    /\ InitCommon
    /\ entry \in Entries
    /\ source \in Sources
    /\ lookup \in (CASE source = "postgres" -> PgOutcomes
                     [] source = "minio" -> ObjOutcomes
                     [] OTHER -> {"none"})
    /\ pc = "fetch"
    /\ ragflow_doc_id = ""
    /\ max_wait_time = 0
    /\ poll_interval = 0

\* monitor_document_progress(document_id, max_wait_time, poll_interval) is called.
MonitorInit ==
    /\ InitCommon
    /\ entry = "monitor"
    /\ source = "postgres"
    /\ lookup = "row"
    /\ pc = "monitor_loop"
    /\ ragflow_doc_id \in RemoteIds
    /\ max_wait_time \in 0..MaxWaitTime
    /\ poll_interval \in 1..MaxPollInterval

\* ------------------------------------------------- pipeline: fetch .. trigger
Fail(e) ==
    /\ pc' = "done"
    /\ raised' = e
    /\ response' = Raise(e)

\* doc_content, doc_name = fetch_document(input.document_id, input.source)
Fetch ==
    /\ pc = "fetch"
    /\ LET r == fetch_document(document_id, source, lookup)
           u == Unpack(r.value)
       IN    /\ calls' = calls \o r.log
             /\ open_conns' = open_conns + r.leaked
             /\ IF r.exc # NoExc
                  THEN Fail(r.exc) /\ UNCHANGED doc_name
                  ELSE IF u.exc # NoExc
                         THEN Fail(u.exc) /\ UNCHANGED doc_name
                         ELSE /\ doc_name' = u.name
                              /\ pc' = "upload"
                              /\ UNCHANGED outVars
    /\ UNCHANGED <<entry, source, document_id, lookup, concVars, idVars, monVars, chatVars>>

\* upload_result = upload_to_ragflow(...); ragflow_doc_id = upload_result["data"][0]["id"]
Upload ==
    /\ pc = "upload"
    /\ \E reply \in UploadReplies :
         LET r == upload_to_ragflow(reply)
             x == ExtractDocId(r.value)
         IN  /\ calls' = Append(calls, Call("upload", doc_name, ""))
             /\ upload_result' = r.value
             /\ IF r.exc # NoExc
                  THEN Fail(r.exc) /\ UNCHANGED ragflow_doc_id
                  ELSE IF x.exc # NoExc
                         THEN Fail(x.exc) /\ UNCHANGED ragflow_doc_id
                         ELSE /\ ragflow_doc_id' = x.id
                              /\ pc' = "trigger"
                              /\ UNCHANGED outVars
    /\ UNCHANGED <<pipeVars, monVars, chatVars>>

\* The trigger request issued for the id the caller submitted.
TriggerCall_OriginalId == Call("trigger", document_id, "")

\* payload = {"document_ids": [doc_id]} with doc_id = ragflow_doc_id
TriggerCall == Call("trigger", ragflow_doc_id, "")

\* trigger_chunk_and_ingest(ragflow_doc_id); process() then returns, and
\* process_with_monitoring() enters monitor_document_progress, which records
\* start_time.
Trigger ==
    /\ pc = "trigger"
    /\ \E reply \in TriggerReplies :
         LET e == trigger_chunk_and_ingest(reply)
         IN  /\ calls' = Append(calls, TriggerCall)
             /\ IF e # NoExc
                  THEN Fail(e) /\ UNCHANGED <<max_wait_time, poll_interval, start_time>>
                  ELSE IF entry = "process"
                         THEN /\ pc' = "done"
                              /\ response' = [kind |-> "ok", http_status |-> 200, detail |-> NoExc,
                                              body |-> [status |-> "success",
                                                        document_id |-> ragflow_doc_id]]
                              /\ UNCHANGED <<raised, max_wait_time, poll_interval, start_time>>
                         ELSE /\ pc' = "monitor_loop"
                              /\ max_wait_time' \in 0..MaxWaitTime
                              /\ poll_interval' \in 1..MaxPollInterval
                              /\ start_time' = now
                              /\ UNCHANGED outVars
    /\ UNCHANGED <<pipeVars, idVars, now, polls, final_polls, any_failed,
                   progress_ids, doc_info, poll_exc, progress_result, chatVars>>

\* ------------------------------------------------ monitor_document_progress
\* The loop body without its try/except: a query that raises ends the monitor.
LoopBody_Unguarded(r) ==
    IF r.exc # NoExc THEN [outcome |-> "raise", exc |-> r.exc]
    ELSE IF GetStatus(r.value) = "1" /\ r.value.numeric /\ r.value.progress >= DONE_FRACTION
           THEN [outcome |-> "completed", exc |-> NoExc]
           ELSE IF GetStatus(r.value) \in {"-1", "2"}
                  THEN [outcome |-> "failed", exc |-> NoExc]
                  ELSE [outcome |-> "sleep", exc |-> NoExc]

\* The loop body with the completion test progress > 1.0 for progress >= 1.0.
LoopBody_Strict(r) ==
    IF r.exc # NoExc THEN [outcome |-> "sleep", exc |-> r.exc]
    ELSE IF GetStatus(r.value) = "1" /\ r.value.numeric /\ r.value.progress > DONE_FRACTION
           THEN [outcome |-> "completed", exc |-> NoExc]
           ELSE IF GetStatus(r.value) \in {"-1", "2"}
                  THEN [outcome |-> "failed", exc |-> NoExc]
                  ELSE [outcome |-> "sleep", exc |-> NoExc]

\* The loop body with the completion test on the status alone.
LoopBody_StatusOnly(r) ==
    IF r.exc # NoExc THEN [outcome |-> "sleep", exc |-> r.exc]
    ELSE IF GetStatus(r.value) = "1"
           THEN [outcome |-> "completed", exc |-> NoExc]
           ELSE IF GetStatus(r.value) \in {"-1", "2"}
                  THEN [outcome |-> "failed", exc |-> NoExc]
                  ELSE [outcome |-> "sleep", exc |-> NoExc]

\* The body of one loop iteration after check_document_progress answered r:
\* "completed" and "failed" return, "sleep" awaits asyncio.sleep(poll_interval)
\* (after a snapshot that is not terminal, and in the except branch, exc being
\* the exception caught), "raise" lets exc leave the monitor.
LoopBody(r) ==
    IF r.exc # NoExc THEN [outcome |-> "sleep", exc |-> r.exc]
    ELSE IF GetStatus(r.value) = "1"
           THEN IF ~r.value.numeric
                  THEN [outcome |-> "sleep", exc |-> Exc("TypeError", 0, ">=")]
                  ELSE IF r.value.progress >= DONE_FRACTION
                         THEN [outcome |-> "completed", exc |-> NoExc]
                         ELSE [outcome |-> "sleep", exc |-> NoExc]
           ELSE IF GetStatus(r.value) \in {"-1", "2"}
                  THEN [outcome |-> "failed", exc |-> NoExc]
                  ELSE [outcome |-> "sleep", exc |-> NoExc]

\* A final query that raises leaves the monitor with the exception it raised.
FinalQuery_Unguarded(r) == [exc |-> r.exc, doc |-> r.value]

\* The final query after the deadline, in try/except: any exception is caught
\* and yields document_info None.
FinalQuery(r) == [exc |-> NoExc, doc |-> IF r.exc # NoExc THEN NoDoc ELSE r.value]

\* The loop condition with <= for <.
InLoop_Inclusive == now - start_time <= max_wait_time

\* while time.time() - start_time < max_wait_time
InLoop == now - start_time < max_wait_time

MonitorReturn(result) ==
    /\ progress_result' = result
    /\ pc' = IF entry = "monitor" THEN "done" ELSE "after_monitor"
    /\ UNCHANGED outVars

\* One loop iteration up to its return or its sleep: the progress query takes d
\* seconds and the environment answers reply.
MonitorPoll ==
    /\ pc = "monitor_loop"
    /\ InLoop
    /\ \E reply \in ProgressReplies, d \in 0..MaxQueryTime :
         LET r == check_document_progress(reply)
             b == LoopBody(r)
         IN  /\ now' = now + d
             /\ polls' = polls + 1
             /\ progress_ids' = progress_ids \cup {ragflow_doc_id}
             /\ doc_info' = r.value
             /\ poll_exc' = b.exc
             /\ any_failed' = (any_failed \/ r.exc # NoExc)
             /\ CASE b.outcome = "completed" ->
                        MonitorReturn([status |-> "completed", document_info |-> r.value,
                                       total_wait_time |-> now' - start_time])
                  [] b.outcome = "failed" ->
                        MonitorReturn([status |-> "failed", document_info |-> r.value,
                                       total_wait_time |-> now' - start_time])
                  [] b.outcome = "raise" ->
                        Fail(b.exc) /\ UNCHANGED progress_result
                  [] OTHER ->
                        /\ pc' = "monitor_sleep"
                        /\ UNCHANGED <<progress_result, outVars>>
    /\ UNCHANGED <<pipeVars, calls, idVars, max_wait_time, poll_interval,
                   start_time, final_polls, chatVars>>

\* The loop awaiting something that never completes instead of the sleep.
MonitorSleep_Forever ==
    /\ pc = "monitor_sleep"
    /\ UNCHANGED vars

\* The loop going back to its condition without awaiting the sleep.
MonitorSleep_Short ==
    /\ pc = "monitor_sleep"
    /\ \E late \in 0..MaxOversleep : now' = now + late
    /\ pc' = "monitor_loop"
    /\ UNCHANGED <<pipeVars, calls, idVars, max_wait_time, poll_interval,
                   start_time, polls, final_polls, any_failed, progress_ids, doc_info,
                   poll_exc, progress_result, chatVars, outVars>>

\* await asyncio.sleep(poll_interval): control returns after at least
\* poll_interval seconds.
MonitorSleep ==
    /\ pc = "monitor_sleep"
    /\ \E late \in 0..MaxOversleep : now' = now + poll_interval + late
    /\ pc' = "monitor_loop"
    /\ UNCHANGED <<pipeVars, calls, idVars, max_wait_time, poll_interval,
                   start_time, polls, final_polls, any_failed, progress_ids, doc_info,
                   poll_exc, progress_result, chatVars, outVars>>

\* The loop condition is false: one final query, then the timeout result.  The
\* clock is not read again, so the time the final query takes is left out.
MonitorTimeout ==
    /\ pc = "monitor_loop"
    /\ ~InLoop
    /\ \E reply \in ProgressReplies :
         LET r == check_document_progress(reply)
             f == FinalQuery(r)
         IN  /\ final_polls' = final_polls + 1
             /\ doc_info' = r.value
             /\ poll_exc' = r.exc
             /\ progress_ids' = progress_ids \cup {ragflow_doc_id}
             /\ IF f.exc # NoExc
                  THEN Fail(f.exc) /\ UNCHANGED progress_result
                  ELSE MonitorReturn([status |-> "timeout", document_info |-> f.doc,
                                      total_wait_time |-> max_wait_time])
    /\ UNCHANGED <<pipeVars, calls, idVars, max_wait_time, poll_interval,
                   now, start_time, polls, any_failed, chatVars>>

\* ------------------------------------- pipeline B after the monitor returned
\* The envelope with input.document_id reported as document_id.
Success_OriginalId(assistant, session, summary) ==
    [kind |-> "ok", http_status |-> 200, detail |-> NoExc,
     body |-> [status |-> "success", document_id |-> document_id,
               original_document_id |-> document_id, source |-> source,
               monitoring_result |-> progress_result, chat_assistant |-> assistant,
               session |-> session, document_summary |-> summary]]

Success(assistant, session, summary) ==
    [kind |-> "ok", http_status |-> 200, detail |-> NoExc,
     body |-> [status |-> "success", document_id |-> ragflow_doc_id,
               original_document_id |-> document_id, source |-> source,
               monitoring_result |-> progress_result, chat_assistant |-> assistant,
               session |-> session, document_summary |-> summary]]

Return(assistant, session, summary) ==
    /\ pc' = "done"
    /\ UNCHANGED raised
    /\ response' = Success(assistant, session, summary)

\* The test made on the final snapshot instead of the monitor's outcome.
ShouldSummarize_Snapshot ==
    /\ progress_result.document_info.kind = "doc"
    /\ progress_result.document_info.status = "1"
    /\ progress_result.document_info.numeric
    /\ progress_result.document_info.progress >= DONE_FRACTION

\* if progress_result.get("status") == "completed"
ShouldSummarize == progress_result.status = "completed"

\* progress_result.get("status") != "completed": nothing is created.
SkipSummary ==
    /\ pc = "after_monitor"
    /\ ~ShouldSummarize
    /\ Return(NoValue, NoValue, NoValue)
    /\ UNCHANGED <<pipeVars, calls, idVars, monVars, chatVars>>

\* The same step without the fallback for a partially created assistant.
AfterAssistant_NoFallback(result) ==
    IF result.code = 0
    THEN LET x == ExtractId(result)
         IN  [exc |-> x.exc, next |-> "session", id |-> x.id]
    ELSE [exc |-> NoExc, next |-> "return", id |-> ""]

\* The step after create_chat_assistant returned result: create a session for
\* the new assistant, or for a partially created one, or return.
AfterAssistant(result) ==
    IF result.code = 0
    THEN LET x == ExtractId(result)
         IN  [exc |-> x.exc, next |-> "session", id |-> x.id]
    ELSE LET h == HasDataId(result)
         IN  IF h.exc # NoExc THEN [exc |-> h.exc, next |-> "raise", id |-> ""]
             ELSE IF h.has THEN [exc |-> NoExc, next |-> "session", id |-> result.data]
             ELSE [exc |-> NoExc, next |-> "return", id |-> ""]

CreateAssistant ==
    /\ pc = "after_monitor"
    /\ ShouldSummarize
    /\ \E reply \in ChatReplies(ChatIds) :
         LET r == create_chat_assistant(reply)
             a == AfterAssistant(r.value)
         IN  /\ calls' = Append(calls, Call("create_chat", doc_name, ""))
             /\ IF r.exc # NoExc
                  THEN Fail(r.exc) /\ UNCHANGED <<chat_id, chat_assistant_result>>
                  ELSE /\ chat_assistant_result' = r.value
                       /\ IF a.exc # NoExc
                            THEN Fail(a.exc) /\ UNCHANGED chat_id
                            ELSE IF a.next = "session"
                                   THEN /\ chat_id' = a.id
                                        /\ pc' = "session"
                                        /\ UNCHANGED outVars
                                   ELSE /\ Return(r.value, NoValue, NoValue)
                                        /\ UNCHANGED chat_id
    /\ UNCHANGED <<pipeVars, idVars, monVars, session_id, session_result,
                   summary_result>>

\* The same step asking for a summary whenever the reply carries an id.
AfterSession_IgnoreCode(result) ==
    LET h == HasDataId(result)
    IN  IF h.exc # NoExc THEN [exc |-> h.exc, next |-> "raise", id |-> ""]
        ELSE IF h.has THEN [exc |-> NoExc, next |-> "summary", id |-> result.data]
        ELSE [exc |-> NoExc, next |-> "return", id |-> ""]

\* The step after create_chat_session returned result.
AfterSession(result) ==
    IF result.code = 0
    THEN LET x == ExtractId(result)
         IN  [exc |-> x.exc, next |-> "summary", id |-> x.id]
    ELSE [exc |-> NoExc, next |-> "return", id |-> ""]

CreateSession ==
    /\ pc = "session"
    /\ \E reply \in ChatReplies(SessionIds) :
         LET r == create_chat_session(reply)
             a == AfterSession(r.value)
         IN  /\ calls' = Append(calls, Call("create_session", chat_id, ""))
             /\ IF r.exc # NoExc
                  THEN Fail(r.exc) /\ UNCHANGED <<session_id, session_result>>
                  ELSE /\ session_result' = r.value
                       /\ IF a.exc # NoExc
                            THEN Fail(a.exc) /\ UNCHANGED session_id
                            ELSE IF a.next = "summary"
                                   THEN /\ session_id' = a.id
                                        /\ pc' = "summary"
                                        /\ UNCHANGED outVars
                                   ELSE /\ Return(chat_assistant_result, r.value, NoValue)
                                        /\ UNCHANGED session_id
    /\ UNCHANGED <<pipeVars, idVars, monVars, chat_id, chat_assistant_result,
                   summary_result>>

SummaryReplies ==
    {[kind |-> k, code |-> -1, data |-> "absent"] : k \in {"transport", "nonjson"}}
    \cup {[kind |-> "json", code |-> 0, data |-> "answer"],
          [kind |-> "json", code |-> 102, data |-> "absent"]}

GetSummary ==
    /\ pc = "summary"
    /\ \E reply \in SummaryReplies :
         LET r == get_document_summary(reply)
         IN  /\ calls' = Append(calls, Call("completions", chat_id, session_id))
             /\ IF r.exc # NoExc
                  THEN Fail(r.exc) /\ UNCHANGED summary_result
                  ELSE /\ summary_result' = r.value
                       /\ Return(chat_assistant_result, session_result, r.value)
    /\ UNCHANGED <<pipeVars, idVars, monVars, chat_id, session_id,
                   chat_assistant_result, session_result>>

\* ------------------------------------------------------------ specifications
MonitorNext ==
    \/ MonitorPoll
    \/ MonitorSleep
    \/ MonitorTimeout

Next ==
    \/ Fetch
    \/ Upload
    \/ Trigger
    \/ MonitorPoll
    \/ MonitorSleep
    \/ MonitorTimeout
    \/ SkipSummary
    \/ CreateAssistant
    \/ CreateSession
    \/ GetSummary

Spec == Init /\ [][Next]_vars

MonitorSpec == MonitorInit /\ [][MonitorNext]_vars

\* The monitor when every progress query returns or raises (requests.get comes
\* back), every asyncio.sleep ends and the coroutine is resumed.
MonitorFairness ==
    /\ WF_vars(MonitorPoll)
    /\ WF_vars(MonitorSleep)
    /\ WF_vars(MonitorTimeout)

MonitorFairSpec == MonitorSpec /\ MonitorFairness

\* ===================================================================== claims
\* ------------------------------------------------------- monitor (C1 .. C4)
CeilDiv(a, b) == (a + b - 1) \div b

\* {status = done, fraction = 1.0} and above
IsDoneSnapshot(d) ==
    d.kind = "doc" /\ d.status = "1" /\ d.numeric /\ d.progress >= DONE_FRACTION

MonitorRunning == pc \in {"monitor_loop", "monitor_sleep"}
MonitorReturned == progress_result.status # "none"
Queries == polls + final_polls

\* C1 as stated: for every N >= 1 with (N-1)*poll_interval < max_wait_time, if
\* the first N-1 progress queries returned snapshots that are not terminal and
\* the Nth returned a done snapshot, the monitor returned COMPLETED after exactly
\* N queries with elapsed >= (N-1)*poll_interval.
C1_AsStated ==
    ( /\ ~MonitorRunning
      /\ Queries >= 1
      /\ ~any_failed
      /\ IsDoneSnapshot(doc_info)
      /\ (Queries - 1) * poll_interval < max_wait_time )
    => /\ progress_result.status = "completed"
       /\ final_polls = 0
       /\ progress_result.total_wait_time >= (Queries - 1) * poll_interval

\* C1 amended: whenever the Nth progress query is issued inside the poll loop
\* (the loop condition held when it was evaluated before that query), the
\* earlier queries returned snapshots that are not terminal and the Nth returns
\* a done snapshot, the monitor has returned COMPLETED with that snapshot, after
\* exactly N queries (none after the loop), with elapsed >= (N-1)*poll_interval,
\* and N satisfies (N-1)*poll_interval < max_wait_time.
C1_CompletedOnNthQueryInLoop ==
    ( /\ polls >= 1
      /\ final_polls = 0
      /\ ~any_failed
      /\ IsDoneSnapshot(doc_info) )
    => /\ ~MonitorRunning
       /\ raised = NoExc
       /\ progress_result.status = "completed"
       /\ progress_result.document_info = doc_info
       /\ progress_result.total_wait_time >= (polls - 1) * poll_interval
       /\ (polls - 1) * poll_interval < max_wait_time

C1_Witness ==
    /\ progress_result.status = "completed"
    /\ polls = 3
    /\ ~any_failed
    /\ progress_result.total_wait_time > (polls - 1) * poll_interval

\* C2: the monitor never issues more than ceil(max_wait_time / poll_interval)
\* progress queries inside the loop, whether they succeed or fail, and never
\* more than one after it; when no query inside the loop returned a terminal
\* snapshot, the monitor returns TIMED_OUT after exactly one final query.  With
\* poll_interval = 5 and max_wait_time = 12 that is at most 3 polls plus one.
C2_TimeoutPollBound ==
    /\ polls <= CeilDiv(max_wait_time, poll_interval)
    /\ final_polls <= 1
    /\ (poll_interval = 5 /\ max_wait_time = 12) => polls <= 3
    /\ (~MonitorRunning /\ progress_result.status \notin {"completed", "failed"})
          => /\ progress_result.status = "timeout"
             /\ final_polls = 1
             /\ progress_result.total_wait_time = max_wait_time
    /\ progress_result.status = "timeout" => final_polls = 1

C2_Witness ==
    /\ progress_result.status = "timeout"
    /\ poll_interval = 5
    /\ max_wait_time = 12
    /\ polls = 3
    /\ final_polls = 1
    /\ any_failed

\* C3: a progress query that raises inside the poll loop does not end the
\* monitor: nothing is returned and nothing is raised, the monitor sleeps, the
\* sleep lasts at least poll_interval and leads back to the loop, where a
\* further query (in the loop or the final one) is issued; and a done snapshot
\* returned by a later query inside the loop still yields COMPLETED.
C3_FailedPollDoesNotAbort ==
    /\ []( (poll_exc # NoExc /\ final_polls = 0)
              => /\ MonitorRunning
                 /\ progress_result = NoResult
                 /\ raised = NoExc )
    /\ [](pc = "monitor_loop" => ENABLED (MonitorPoll \/ MonitorTimeout))
    /\ []( (any_failed /\ final_polls = 0 /\ IsDoneSnapshot(doc_info))
              => /\ progress_result.status = "completed"
                 /\ progress_result.document_info = doc_info )
    /\ [][pc = "monitor_sleep"
            => /\ pc' = "monitor_loop"
               /\ now' >= now + poll_interval
               /\ polls' = polls]_vars

C3_Witness ==
    /\ progress_result.status = "completed"
    /\ any_failed
    /\ polls = 4

\* C4: the monitor never lets an exception out, whatever the progress queries
\* answer: it is running or it has returned COMPLETED, FAILED or TIMED_OUT; and
\* when the final query after the deadline raises, it returns TIMED_OUT with no
\* snapshot and elapsed = max_wait_time.
C4_MonitorNeverRaises ==
    /\ raised = NoExc
    /\ response.kind # "raised"
    /\ MonitorRunning \/ progress_result.status \in {"completed", "failed", "timeout"}
    /\ (final_polls = 1 /\ poll_exc # NoExc)
          => /\ progress_result.status = "timeout"
             /\ progress_result.document_info = NoDoc
             /\ progress_result.total_wait_time = max_wait_time

C4_Witness ==
    /\ progress_result.status = "timeout"
    /\ final_polls = 1
    /\ poll_exc # NoExc
    /\ any_failed
    /\ progress_result.document_info = NoDoc

\* ---------------------------------------------------- pipelines (C5 .. C10)
HttpOps == {"upload", "trigger", "create_chat", "create_session", "completions"}
CallsOf(ops) == {i \in 1..Len(calls) : calls[i].op \in ops}
NoHttpCall == CallsOf(HttpOps) = {} /\ Queries = 0
IsDict(v) == v.kind = "dict"

\* C5 as stated: once fetch, upload and trigger_ingest have succeeded, a run of
\* process_with_monitoring always ends with the success envelope carrying the
\* monitoring outcome, whatever create_chat_assistant, create_chat_session and
\* get_document_summary do.
C5_AsStated ==
    (entry = "process_with_monitoring" /\ pc = "done" /\ polls + final_polls >= 1)
    => /\ response.kind = "ok"
       /\ response.body.status = "success"
       /\ response.body.monitoring_result = progress_result

\* C6: when create_chat_assistant returned a non-zero code with an id in
\* data.id, create_chat_session is invoked with exactly that id and with no
\* other; and when that session is created with code 0, get_document_summary is
\* invoked with that assistant id and the new session id.
C6_FallbackSession ==
    ( /\ IsDict(chat_assistant_result)
      /\ chat_assistant_result.code # 0
      /\ chat_assistant_result.data \in ChatIds )
    => /\ chat_id = chat_assistant_result.data
       /\ \/ pc = "session"
          \/ \E i \in CallsOf({"create_session"}) : calls[i].a = chat_assistant_result.data
       /\ \A i \in CallsOf({"create_session"}) : calls[i].a = chat_assistant_result.data
       /\ ( /\ IsDict(session_result)
            /\ session_result.code = 0
            /\ session_result.data \in SessionIds )
          => /\ session_id = session_result.data
             /\ \/ pc = "summary"
                \/ \E i \in CallsOf({"completions"}) :
                      /\ calls[i].a = chat_assistant_result.data
                      /\ calls[i].b = session_result.data
             /\ \A i \in CallsOf({"completions"}) :
                      /\ calls[i].a = chat_assistant_result.data
                      /\ calls[i].b = session_result.data

C6_Witness ==
    /\ pc = "done"
    /\ IsDict(chat_assistant_result)
    /\ chat_assistant_result.code # 0
    /\ chat_assistant_result.data = "A2"
    /\ IsDict(session_result)
    /\ session_result.code = 0
    /\ session_result.data = "S2"
    /\ \E i \in CallsOf({"completions"}) : calls[i].a = "A2" /\ calls[i].b = "S2"
    /\ response.kind = "ok"

\* C7 as stated: when upload returns a response whose result list is empty or
\* whose first element lacks the id field, the pipeline fails with
\* UPSTREAM_ERROR and makes no trigger call, progress query or assistant call.
C7_AsStated ==
    (upload_result.kind \in {"json_empty", "json_noid"})
    => /\ pc = "done"
       /\ response.kind = "error"
       /\ response.http_status = UPSTREAM_ERROR
       /\ CallsOf(HttpOps \ {"upload"}) = {}
       /\ Queries = 0

\* C8 as stated: when fetch, upload or trigger_ingest raises NOT_FOUND,
\* INVALID_ARGUMENT or UPSTREAM_ERROR, the run ends there and the failure at the
\* boundary has that kind and carries that detail.
C8_AsStated ==
    (raised.type = "HTTPException")
    => /\ pc = "done"
       /\ response.kind = "error"
       /\ response.http_status = raised.status
       /\ response.detail.detail = raised.detail
       /\ calls # <<>> => calls[Len(calls)].op \in {"pg_query", "minio_get", "upload", "trigger"}

\* C9: for every source other than "postgres" and "minio", fetch raises
\* INVALID_ARGUMENT, the run ends there, and no backend (and nothing else) has
\* been contacted.
C9_InvalidSource ==
    (source \notin {"postgres", "minio"} /\ pc # "fetch")
    => /\ pc = "done"
       /\ raised.type = "HTTPException"
       /\ raised.status = INVALID_ARGUMENT
       /\ response.kind = "error"
       /\ calls = <<>>
       /\ open_conns = 0
       /\ Queries = 0

C9_Witness ==
    /\ source = "s3"
    /\ pc = "done"
    /\ raised.status = INVALID_ARGUMENT
    /\ calls = <<>>

\* C10: when the relational store holds no row for the identifier, fetch raises
\* NOT_FOUND, the run ends there, and no HTTP call (upload, trigger, progress,
\* assistant, session, summary) has been made to the ingestion service.
C10_MissingRow ==
    (source = "postgres" /\ lookup = "no_row" /\ pc # "fetch")
    => /\ pc = "done"
       /\ raised.type = "HTTPException"
       /\ raised.status = NOT_FOUND
       /\ response.kind = "error"
       /\ NoHttpCall
       /\ CallsOf({"pg_query"}) # {}

C10_Witness ==
    /\ entry = "process_with_monitoring"
    /\ source = "postgres"
    /\ lookup = "no_row"
    /\ pc = "done"
    /\ raised.status = NOT_FOUND
    /\ NoHttpCall

\* --------------------------------------------- source adapter (C11, C12)
BackendOps == {"pg_connect", "pg_query", "minio_get"}
DocumentExists == lookup \in {"row", "text", "text2"}

\* C11 as stated: for both source kinds, when the document exists fetch yields
\* a content and a display name, and the pipeline goes on to upload.
C11_AsStated ==
    (source \in {"postgres", "minio"} /\ DocumentExists /\ pc # "fetch")
    => /\ doc_name # ""
       /\ doc_name # "char"
       /\ pc = "upload" \/ CallsOf({"upload"}) # {}

\* C12 as stated: a fetch from the relational store leaves no connection open,
\* whichever way it ends, and the error it surfaces is the one that ended it
\* (never the UnboundLocalError of the finally block).
C12_AsStated ==
    (source = "postgres" /\ pc # "fetch")
    => /\ open_conns = 0
       /\ raised.type # "UnboundLocalError"

\* ------------------------------------------------- pipelines (C13, C14)
\* C13: process never issues a progress query or an assistant, session or
\* summary call; when it succeeds it has made exactly the backend lookup, then
\* one upload, then one trigger, in that order, and it returns the id of the
\* first element of the upload response's result list, the id it triggered.
C13_ProcessSequence ==
    (entry = "process")
    => /\ Queries = 0
       /\ progress_ids = {}
       /\ CallsOf({"create_chat", "create_session", "completions"}) = {}
       /\ (pc = "done" /\ response.kind = "ok")
            => LET n == Len(calls)
               IN  /\ n >= 3
                   /\ calls[n].op = "trigger"
                   /\ calls[n - 1].op = "upload"
                   /\ \A i \in 1..(n - 2) : calls[i].op \in BackendOps
                   /\ upload_result.kind = "json_id"
                   /\ calls[n].a = upload_result.id
                   /\ response.body = [status |-> "success",
                                       document_id |-> upload_result.id]

C13_Witness ==
    /\ entry = "process"
    /\ source = "postgres"
    /\ pc = "done"
    /\ response.kind = "ok"
    /\ response.body.document_id = "R2"
    /\ Len(calls) = 4

\* C14: when a run of process_with_monitoring found the document, got a remote
\* id from upload, triggered, saw the monitor return COMPLETED, created the
\* assistant and the session with code 0 and got a summary back, its result
\* reports status "success", the remote id of the upload as document_id, the
\* monitoring outcome COMPLETED and that summary (not None).
C14_AllStepsSucceed ==
    ( /\ entry = "process_with_monitoring"
      /\ pc = "done"
      /\ DocumentExists
      /\ upload_result.kind = "json_id"
      /\ progress_result.status = "completed"
      /\ IsDict(chat_assistant_result) /\ chat_assistant_result.code = 0
      /\ IsDict(session_result) /\ session_result.code = 0
      /\ IsDict(summary_result) )
    => /\ raised = NoExc
       /\ response.kind = "ok"
       /\ response.body.status = "success"
       /\ response.body.document_id = upload_result.id
       /\ response.body.original_document_id = document_id
       /\ response.body.monitoring_result.status = "completed"
       /\ response.body.document_summary = summary_result
       /\ response.body.document_summary # NoValue
       /\ response.body.chat_assistant = chat_assistant_result
       /\ response.body.session = session_result

C14_Witness ==
    /\ entry = "process_with_monitoring"
    /\ source = "postgres"
    /\ pc = "done"
    /\ upload_result.kind = "json_id" /\ upload_result.id = "R1"
    /\ progress_result.status = "completed"
    /\ polls = 2
    /\ IsDict(chat_assistant_result) /\ chat_assistant_result.code = 0
    /\ chat_assistant_result.data = "A1"
    /\ IsDict(session_result) /\ session_result.code = 0
    /\ session_result.data = "S1"
    /\ IsDict(summary_result) /\ summary_result.data = "answer"
    /\ response.kind = "ok"

\* ------------------------------------------- completion predicate (C15)
IsFailureSnapshot(d) == d.kind = "doc" /\ GetStatus(d) \in {"-1", "2"}
\* The latest query was made inside the loop and returned a snapshot.
SnapshotInLoop == polls >= 1 /\ final_polls = 0 /\ doc_info.kind = "doc"

\* C15: the monitor returns COMPLETED only on a snapshot with status done and
\* fraction >= 1.0 and FAILED only on a snapshot with a failure code, each time
\* with the snapshot that caused the decision as final snapshot; a done or a
\* failure snapshot seen inside the loop ends the monitor that way, and after
\* every other snapshot seen inside the loop the monitor has returned nothing
\* and is back at its loop only after one more full poll_interval.
C15_CompletionPredicate ==
    /\ progress_result.status = "completed"
         => /\ final_polls = 0
            /\ IsDoneSnapshot(progress_result.document_info)
            /\ progress_result.document_info = doc_info
    /\ progress_result.status = "failed"
         => /\ final_polls = 0
            /\ IsFailureSnapshot(progress_result.document_info)
            /\ progress_result.document_info = doc_info
    /\ SnapshotInLoop
         => /\ IsDoneSnapshot(doc_info) => progress_result.status = "completed"
            /\ IsFailureSnapshot(doc_info) => progress_result.status = "failed"
            /\ (~IsDoneSnapshot(doc_info) /\ ~IsFailureSnapshot(doc_info))
                 => /\ MonitorRunning
                    /\ progress_result = NoResult
    /\ pc = "monitor_sleep" => now - start_time >= (polls - 1) * poll_interval
    /\ pc = "monitor_loop" => now - start_time >= polls * poll_interval

C15_Witness ==
    /\ pc = "monitor_loop"
    /\ polls = 2
    /\ final_polls = 0
    /\ doc_info = Doc("0", DONE_FRACTION, TRUE)
    /\ InLoop

\* ------------------------------------------------- summary gating (C16)
ChatOps == {"create_chat", "create_session", "completions"}

\* C16: process_with_monitoring calls create_chat_assistant if and only if the
\* monitor returned COMPLETED.  After FAILED or TIMED_OUT, whatever the final
\* snapshot shows, no assistant, session or summary call is made, and the run
\* returns the success envelope with the monitoring outcome and with
\* chat_assistant, session and document_summary None.
C16_SummaryOnlyWhenCompleted ==
    /\ CallsOf({"create_chat"}) # {} => progress_result.status = "completed"
    /\ (progress_result.status = "completed" /\ pc # "after_monitor")
         => CallsOf({"create_chat"}) # {}
    /\ progress_result.status \in {"failed", "timeout"}
         => /\ CallsOf(ChatOps) = {}
            /\ raised = NoExc
            /\ pc \in {"after_monitor", "done"}
            /\ pc = "done"
                 => /\ response.kind = "ok"
                    /\ response.body.status = "success"
                    /\ response.body.monitoring_result = progress_result
                    /\ response.body.chat_assistant = NoValue
                    /\ response.body.session = NoValue
                    /\ response.body.document_summary = NoValue

C16_Witness ==
    /\ entry = "process_with_monitoring"
    /\ pc = "done"
    /\ progress_result.status = "timeout"
    /\ IsDoneSnapshot(progress_result.document_info)
    /\ response.kind = "ok"

\* -------------------------------------------------- handle ordering (C17)
\* C17: in both pipelines the trigger call and every progress query come after
\* an upload that returned a remote id and carry exactly that id, there is at
\* most one upload and one trigger, and a progress query is made only after
\* the trigger call succeeded.
C17_HandleOrdering ==
    /\ Cardinality(CallsOf({"upload"})) <= 1
    /\ Cardinality(CallsOf({"trigger"})) <= 1
    /\ \A i \in CallsOf({"trigger"}) :
          /\ upload_result.kind = "json_id"
          /\ calls[i].a = upload_result.id
          /\ \E j \in CallsOf({"upload"}) : j < i
    /\ progress_ids # {}
         => /\ upload_result.kind = "json_id"
            /\ progress_ids = {upload_result.id}
    /\ Queries >= 1
         => /\ progress_ids # {}
            /\ entry = "process_with_monitoring"
            /\ \E i \in CallsOf({"trigger"}) : calls[i].a = upload_result.id
    /\ (pc = "done" /\ calls # <<>> /\ calls[Len(calls)].op = "trigger" /\ raised # NoExc)
         => Queries = 0

C17_Witness ==
    /\ entry = "process_with_monitoring"
    /\ polls = 2
    /\ final_polls = 1
    /\ progress_ids = {"R2"}
    /\ \E i \in CallsOf({"trigger"}) : calls[i].a = "R2"

\* ---------------------------------------------- conversation handles (C18)
\* C18: create_chat_session is called only with the id found in the same run's
\* create_chat_assistant response; get_document_summary is called only after
\* create_chat_session returned code 0, with the id of that session and the
\* same assistant id; a run makes at most one call of each of the three.
C18_ConversationHandles ==
    /\ \A op \in ChatOps : Cardinality(CallsOf({op})) <= 1
    /\ \A i \in CallsOf({"create_session"}) :
          /\ IsDict(chat_assistant_result)
          /\ chat_assistant_result.data \in ChatIds
          /\ calls[i].a = chat_assistant_result.data
          /\ \E j \in CallsOf({"create_chat"}) : j < i
    /\ \A i \in CallsOf({"completions"}) :
          /\ IsDict(session_result)
          /\ session_result.code = 0
          /\ session_result.data \in SessionIds
          /\ calls[i].b = session_result.data
          /\ calls[i].a = chat_assistant_result.data
          /\ \E j \in CallsOf({"create_session"}) : j < i /\ calls[j].a = calls[i].a

C18_Witness ==
    /\ pc = "done"
    /\ IsDict(chat_assistant_result) /\ chat_assistant_result.code = 0
    /\ chat_assistant_result.data = "A2"
    /\ IsDict(session_result) /\ session_result.data = "S2"
    /\ \E i \in CallsOf({"completions"}) : calls[i].a = "A2" /\ calls[i].b = "S2"

\* ----------------------------------------------------- poll ordering (C19)
\* C19: the progress queries of a monitor are made one at a time, each from
\* the head of the loop; a query made inside the loop that does not end the
\* monitor, whether it returned a snapshot or raised, is followed by the sleep;
\* and the sleep issues no query and gives control back to the loop no sooner
\* than poll_interval later.
C19_PollOrdering ==
    [][ /\ Queries' # Queries
           => /\ pc = "monitor_loop"
              /\ Queries' = Queries + 1
        /\ (polls' # polls /\ progress_result' = NoResult)
           => /\ pc' = "monitor_sleep"
              /\ now' >= now
        /\ pc' = "monitor_sleep" => polls' = polls + 1
        /\ pc = "monitor_sleep"
           => /\ pc' = "monitor_loop"
              /\ Queries' = Queries
              /\ now' - now >= poll_interval ]_vars

C19_Witness ==
    /\ pc = "monitor_loop"
    /\ polls = 3
    /\ any_failed
    /\ poll_exc # NoExc
    /\ now - start_time >= 3 * poll_interval
    /\ InLoop

\* ------------------------------------------------ two concurrent requests
\* process_with_monitoring is a coroutine of the one event loop.  Its remote
\* calls are blocking calls of requests: a run gives the loop up only at
\* await asyncio.sleep and at its return, and while it holds the loop (running)
\* no other run wakes up or starts.
RemoteIdOf(r) == IF r = 1 THEN "R1" ELSE "R2"
ChatIdOf(r) == IF r = 1 THEN "A1" ELSE "A2"
SessionIdOf(r) == IF r = 1 THEN "S1" ELSE "S2"

frozenVars == <<entry, source, document_id, lookup, pc, calls, open_conns, doc_name,
                idVars, max_wait_time, poll_interval, start_time, polls, final_polls,
                any_failed, progress_ids, doc_info, poll_exc, progress_result,
                chatVars, outVars>>

Max(a, b) == IF a >= b THEN a ELSE b

\* Two requests have arrived; monitor_document_progress is called with its
\* default max_wait_time and poll_interval in both.
ConcInit ==
    /\ InitCommon
    /\ entry = "process_with_monitoring"
    /\ source = "postgres"
    /\ lookup = "row"
    /\ pc = "fetch"
    /\ ragflow_doc_id = ""
    /\ max_wait_time \in 1..(MaxWaitTime \div 3)
    /\ poll_interval \in 1..(MaxPollInterval \div 2)

\* Run r returns with status st, the requests used having been issued.
RunEnd(r, st, used) ==
    [runs[r] EXCEPT !.pc = "done", !.status = st, !.used = used,
                    !.start_time = 0, !.due = 0, !.solo_elapsed = 0]

\* From the arrival of the request to the call of the monitor: fetch, upload
\* and trigger, which take d seconds together; the monitor records start_time.
ConcBegin(r) ==
    /\ running = 0
    /\ runs[r].pc = "new"
    /\ \E up \in {u \in UploadReplies : u.id \in {"", RemoteIdOf(r)}},
          tr \in TriggerReplies, d \in 0..MaxQueryTime :
         LET u == upload_to_ragflow(up)
             x == ExtractDocId(u.value)
             e == trigger_chunk_and_ingest(tr)
         IN  /\ now' = now + d
             /\ IF u.exc # NoExc \/ x.exc # NoExc
                  THEN /\ runs' = [runs EXCEPT ![r] = RunEnd(r, "error", {})]
                       /\ running' = 0
                  ELSE IF e # NoExc
                         THEN /\ runs' = [runs EXCEPT ![r] =
                                            [RunEnd(r, "error", {Call("trigger", x.id, "")})
                                               EXCEPT !.ragflow_doc_id = x.id]]
                              /\ running' = 0
                         ELSE /\ runs' = [runs EXCEPT ![r].pc = "loop",
                                                      ![r].ragflow_doc_id = x.id,
                                                      ![r].used = {Call("trigger", x.id, "")},
                                                      ![r].start_time = now',
                                                      ![r].solo_elapsed = 0]
                              /\ running' = r
    /\ UNCHANGED frozenVars

\* while time.time() - start_time < max_wait_time, in run r
RunInLoop(r) == now - runs[r].start_time < max_wait_time

ProgressCall(r) == Call("progress", runs[r].ragflow_doc_id, "")

\* One loop iteration of run r up to its return or its sleep.
ConcPoll(r) ==
    /\ running = r
    /\ runs[r].pc = "loop"
    /\ RunInLoop(r)
    /\ \E reply \in ProgressReplies, d \in 0..MaxQueryTime :
         LET q == check_document_progress(reply)
             b == LoopBody(q)
             used == runs[r].used \cup {ProgressCall(r)}
             solo == runs[r].solo_elapsed + d
         IN  /\ now' = now + d
             /\ CASE b.outcome = "completed" ->
                        /\ runs' = [runs EXCEPT ![r].pc = "summarize",
                                                ![r].used = used,
                                                ![r].solo_elapsed = solo,
                                                ![r].done_snapshot = TRUE]
                        /\ running' = r
                  [] b.outcome = "failed" ->
                        /\ runs' = [runs EXCEPT ![r] =
                                      [RunEnd(r, "failed", used)
                                         EXCEPT !.document_id = runs[r].ragflow_doc_id]]
                        /\ running' = 0
                  [] b.outcome = "raise" ->
                        /\ runs' = [runs EXCEPT ![r] = RunEnd(r, "error", used)]
                        /\ running' = 0
                  [] OTHER ->
                        /\ runs' = [runs EXCEPT ![r].pc = "sleeping",
                                                ![r].used = used,
                                                ![r].solo_elapsed = solo,
                                                ![r].due = now' + poll_interval]
                        /\ running' = 0
    /\ UNCHANGED frozenVars

\* The sleep of run r ends: late seconds after it is due, and not before the
\* event loop is free.
ConcWake(r) ==
    /\ running = 0
    /\ runs[r].pc = "sleeping"
    /\ \E late \in 0..MaxOversleep :
         /\ now' = Max(now, runs[r].due + late)
         /\ runs' = [runs EXCEPT ![r].pc = "loop",
                                 ![r].solo_elapsed = @ + poll_interval + MaxOversleep]
    /\ running' = r
    /\ UNCHANGED frozenVars

\* The loop condition of run r is false: the final query, the timeout result
\* and, the status not being "completed", the return of the request.
ConcTimeout(r) ==
    /\ running = r
    /\ runs[r].pc = "loop"
    /\ ~RunInLoop(r)
    /\ \E reply \in ProgressReplies :
         LET f == FinalQuery(check_document_progress(reply))
             used == runs[r].used \cup {ProgressCall(r)}
         IN  IF f.exc # NoExc
               THEN runs' = [runs EXCEPT ![r] = RunEnd(r, "error", used)]
               ELSE runs' = [runs EXCEPT ![r] =
                               [RunEnd(r, "timeout", used)
                                  EXCEPT !.done_snapshot = IsDoneSnapshot(f.doc),
                                         !.alone_in_loop = runs[r].solo_elapsed < max_wait_time,
                                         !.document_id = runs[r].ragflow_doc_id]]
    /\ running' = 0
    /\ UNCHANGED <<now, frozenVars>>

\* Run r returns from the chat calls: ok tells whether none of them raised.
ChatEnd(r, ok, used, chat, session, summary) ==
    runs' = [runs EXCEPT ![r] =
               [RunEnd(r, IF ok THEN "completed" ELSE "error", runs[r].used \cup used)
                  EXCEPT !.chat_id = chat,
                         !.session_id = session,
                         !.document_id = IF ok THEN runs[r].ragflow_doc_id ELSE "",
                         !.summary = summary]]

\* Run r after its monitor returned "completed": create_chat_assistant, then
\* create_chat_session and get_document_summary as far as the replies lead,
\* and the return.
ConcSummarize(r) ==
    /\ running = r
    /\ runs[r].pc = "summarize"
    /\ \E a \in ChatReplies({ChatIdOf(r)}) :
         LET ra == create_chat_assistant(a)
             aa == AfterAssistant(ra.value)
             c1 == {Call("create_chat", "c100.txt", "")}
             c2 == c1 \cup {Call("create_session", aa.id, "")}
         IN  IF ra.exc # NoExc \/ aa.exc # NoExc
               THEN ChatEnd(r, FALSE, c1, "", "", FALSE)
             ELSE IF aa.next # "session"
               THEN ChatEnd(r, TRUE, c1, "", "", FALSE)
             ELSE \E s \in ChatReplies({SessionIdOf(r)}) :
                    LET rs == create_chat_session(s)
                        as == AfterSession(rs.value)
                        c3 == c2 \cup {Call("completions", aa.id, as.id)}
                    IN  IF rs.exc # NoExc \/ as.exc # NoExc
                          THEN ChatEnd(r, FALSE, c2, aa.id, "", FALSE)
                        ELSE IF as.next # "summary"
                          THEN ChatEnd(r, TRUE, c2, aa.id, "", FALSE)
                        ELSE \E q \in SummaryReplies :
                               LET rq == get_document_summary(q)
                               IN  ChatEnd(r, rq.exc = NoExc, c3, aa.id, as.id,
                                           rq.exc = NoExc)
    /\ running' = 0
    /\ UNCHANGED <<now, frozenVars>>

ConcNext ==
    \E r \in Runs :
        \/ ConcBegin(r)
        \/ ConcPoll(r)
        \/ ConcWake(r)
        \/ ConcTimeout(r)
        \/ ConcSummarize(r)

ConcurrentSpec == ConcInit /\ [][ConcNext]_vars

\* ------------------------------------------------------ isolation (C20)
\* C20 as stated: of two concurrent runs of process_with_monitoring, each
\* issues its trigger, progress, session and summary requests with the handles
\* produced in that run only, and each returns what it would return alone on
\* the same remote responses: a run that returned TIMED_OUT on a done snapshot
\* could, alone, have found its deadline passed before that query as well.
C20_AsStated ==
    \A r \in Runs :
        /\ \A c \in runs[r].used :
              /\ c.op \in {"trigger", "progress"} => c.a = RemoteIdOf(r)
              /\ c.op = "create_session" => c.a = ChatIdOf(r)
              /\ c.op = "completions" => c.a = ChatIdOf(r) /\ c.b = SessionIdOf(r)
        /\ runs[r].status \in {"completed", "failed", "timeout"}
              => runs[r].document_id = RemoteIdOf(r)
        /\ (runs[r].status = "timeout" /\ runs[r].done_snapshot)
              => ~runs[r].alone_in_loop

\* ------------------------------------------------------ termination (C21)
TerminalOutcomes == {"completed", "failed", "timeout"}

\* C21: for every poll_interval > 0 and max_wait_time >= 0, when every query
\* returns or raises and every sleep ends, the monitor eventually returns one
\* of COMPLETED, FAILED and TIMED_OUT; what it returned never changes; it issues
\* no progress query after that; and it has made the final query exactly once
\* when it returned TIMED_OUT and never otherwise.
C21_Termination ==
    /\ <>(pc = "done" /\ progress_result.status \in TerminalOutcomes)
    /\ [](MonitorReturned
            => /\ pc = "done"
               /\ raised = NoExc
               /\ progress_result.status \in TerminalOutcomes
               /\ final_polls = (IF progress_result.status = "timeout" THEN 1 ELSE 0))
    /\ [][MonitorReturned
            => /\ progress_result' = progress_result
               /\ Queries' = Queries]_vars
    /\ [](pc = "done" => ~ENABLED MonitorNext)

C21_Witness ==
    /\ pc = "done"
    /\ progress_result.status = "timeout"
    /\ polls = 3
    /\ final_polls = 1
    /\ any_failed
    /\ poll_interval = MaxPollInterval - 1

====
